---- MODULE Spec2Model ----
(***************************************************************************)
(* The localStorage-backed mock API of the task manager                    *)
(* (frontend/src/services/mockApi.js, appended to                          *)
(* src/frontend/src/pages/Dashboard.jsx from line 410 on): the users,      *)
(* tasks and session items of the Store, the Credential Codec (btoa), the  *)
(* Auth Service (mockAuthAPI) and the Task Repository (mockTaskAPI).       *)
(*                                                                         *)
(* Text the code inspects (passwords, titles, descriptions, search terms)  *)
(* is a sequence of UTF-16 code units; text it only compares (names,       *)
(* emails, status, priority, dates, messages) is a string.  A JavaScript   *)
(* object is a function from its keys; a key that is undefined is not in   *)
(* the DOMAIN, which is also what JSON.stringify makes of it.              *)
(***************************************************************************)
EXTENDS Integers, Sequences, FiniteSets, TLC

VARIABLES
    mock_users,        \* localStorage['mock_users']: sequence of User records
    mock_tasks,        \* localStorage['mock_tasks']: sequence of Task records
    mock_currentUser,  \* localStorage['mock_currentUser']: User minus password, or null
    mock_token,        \* localStorage['mock_token']: the bearer token, or null
    idSeed,            \* number of identifiers generateId() has handed out
    now,               \* the clock new Date() reads
    resp,              \* the last call: the operation and its settled promise
    signedUp,          \* history: the successful signups of the stored users
    isBackendAvailable,\* services/api.js: the memoized probe result, "null" until set
    calls,             \* the fetchTasks calls of this page load, each with its position
    probes,            \* history: the GET /api/health requests sent
    ui_tasks,          \* Dashboard state `tasks`: the displayed list
    toast,             \* Dashboard / Profile state `toast`: the message last shown
    filters,           \* Dashboard state `filters`: the query of the list
    auth_user,         \* AuthContext state `user`
    ls_token,          \* localStorage['token']
    ls_user,           \* localStorage['user']
    returned           \* what the last AuthContext operation returned to its caller

store == <<mock_users, mock_tasks, mock_currentUser, mock_token>>
\* the state of services/api.js and of the Dashboard component
\* the state of AuthContext and the session items it keeps
context == <<auth_user, ls_token, ls_user, returned>>
dispatch == <<isBackendAvailable, calls, probes, ui_tasks, toast, filters, context>>
vars == <<mock_users, mock_tasks, mock_currentUser, mock_token, idSeed, now, resp, signedUp,
          isBackendAvailable, calls, probes, ui_tasks, toast, filters,
          auth_user, ls_token, ls_user, returned>>

(***************************************************************************)
(* Bounds of the model.                                                    *)
(***************************************************************************)
MaxUsers == 2
MaxTasks == 2
MaxIds == 6
MaxTime == 1
MaxCalls == 3
MaxSorted == 3

(***************************************************************************)
(* JavaScript values.                                                      *)
(***************************************************************************)
null == <<>>                 \* getItem of an absent key, JSON null
nullDate == "null"           \* dueDate: null (a date field holds strings)
noToken == 0                 \* mock_token absent (identifiers start at 1)

Keys(o) == DOMAIN o
Has(o, k) == k \in DOMAIN o
\* { ...a, ...b }
Spread(a, b) == [k \in DOMAIN a \cup DOMAIN b |-> IF k \in DOMAIN b THEN b[k] ELSE a[k]]
\* const { k, ...rest } = o
Rest(o, k) == [j \in DOMAIN o \ {k} |-> o[j]]
\* array.filter(p), Store order kept; keep[i] is p(s[i])
Filter(s, keep) ==
    LET idx == {i \in 1..Len(s) : keep[i]}
        nth(k) == CHOOSE i \in idx : Cardinality({j \in idx : j < i}) = k - 1
    IN  [k \in 1..Cardinality(idx) |-> s[nth(k)]]
\* array.findIndex(p): the first index, 0 for JavaScript's -1; p[i] is p(s[i])
FindIndex(s, p) ==
    IF \E i \in 1..Len(s) : p[i]
    THEN CHOOSE i \in 1..Len(s) : p[i] /\ \A j \in 1..(i - 1) : ~p[j]
    ELSE 0
Range(s) == {s[i] : i \in 1..Len(s)}

(***************************************************************************)
(* Credential Codec: hashPassword / verifyPassword over btoa.              *)
(***************************************************************************)
\* btoa throws InvalidCharacterError on a code unit above 0xFF
Latin1Max == 255
IsLatin1(s) == \A i \in 1..Len(s) : s[i] <= Latin1Max

\* the base64 alphabet: A-Z a-z 0-9 + /
B64Char(k) ==
    IF k < 26 THEN 65 + k
    ELSE IF k < 52 THEN 97 + (k - 26)
    ELSE IF k < 62 THEN 48 + (k - 52)
    ELSE IF k = 62 THEN 43 ELSE 47
B64Pad == 61

RECURSIVE Base64(_)
Base64(s) ==
    IF Len(s) = 0 THEN <<>>
    ELSE LET b1 == s[1]
             b2 == IF Len(s) >= 2 THEN s[2] ELSE 0
             b3 == IF Len(s) >= 3 THEN s[3] ELSE 0
             n == b1 * 65536 + b2 * 256 + b3
         IN  << B64Char(n \div 262144),
                B64Char((n \div 4096) % 64),
                IF Len(s) >= 2 THEN B64Char((n \div 64) % 64) ELSE B64Pad,
                IF Len(s) >= 3 THEN B64Char(n % 64) ELSE B64Pad >>
             \o Base64(SubSeq(s, 4, Len(s)))

\* hashPassword(password) = btoa(password), defined when btoa does not throw
hashPassword(password) == Base64(password)
\* verifyPassword(password, hashed) = (btoa(password) === hashed)
verifyPassword(password, hashed) == Base64(password) = hashed

(***************************************************************************)
(* Settled promises: simulateDelay(envelope) resolves with the envelope;   *)
(* an exception inside the async function rejects the promise.             *)
(***************************************************************************)
noData == <<>>
Resolved(success, message, data) ==
    [settled |-> "resolved", success |-> success, message |-> message, data |-> data]
Rejected(error) == [settled |-> "rejected", error |-> error]
Call(op, result) == [op |-> op, result |-> result]

IsOk(r) == r.result.settled = "resolved" /\ r.result.success
IsFail(r) == r.result.settled = "resolved" /\ ~r.result.success
IsThrow(r) == r.result.settled = "rejected"

\* generateId(): Date.now() in base 36 followed by random digits: an identifier
\* no earlier call yielded.  The k-th identifier a call takes:
generateId(k) == idSeed + k

(***************************************************************************)
(* mockAuthAPI                                                             *)
(***************************************************************************)
\* A variant of signup's lookup that never finds the email.
emailRegisteredNever(users, email) == FALSE

\* users.find(u => u.email === userData.email), as signup reads it
emailRegistered(users, email) == \E i \in 1..Len(users) : users[i].email = email
\* users.find(u => u.email === credentials.email): the first such user, 0 for none
findUser(users, email) == FindIndex(users, [i \in 1..Len(users) |-> users[i].email = email])
\* users.findIndex(u => u._id === user._id)
FindById(users, id) == FindIndex(users, [i \in 1..Len(users) |-> users[i]._id = id])

signup(userData) ==
    LET users == mock_users
    IN  IF emailRegistered(users, userData.email)
        THEN /\ resp' = Call("signup", Resolved(FALSE, "Email already registered", noData))
             /\ UNCHANGED <<store, idSeed, now, signedUp>>
        ELSE IF ~IsLatin1(userData.password)
        THEN \* hashPassword throws while newUser is built: nothing is stored
             /\ resp' = Call("signup", Rejected("InvalidCharacterError"))
             /\ UNCHANGED <<store, idSeed, now, signedUp>>
        ELSE /\ Len(users) < MaxUsers
             /\ idSeed + 2 <= MaxIds
             /\ idSeed' = idSeed + 2
             /\ LET newUser == [ _id |-> generateId(1),
                                 name |-> userData.name,
                                 email |-> userData.email,
                                 password |-> hashPassword(userData.password),
                                 createdAt |-> now ]
                    userWithoutPassword == Rest(newUser, "password")
                    token == generateId(2)
                IN  /\ mock_users' = Append(users, newUser)
                    /\ mock_token' = token
                    /\ mock_currentUser' = userWithoutPassword
                    /\ resp' = Call("signup", Resolved(TRUE, "", [token |-> token, user |-> userWithoutPassword]))
             /\ signedUp' = signedUp \cup {[id |-> generateId(1), email |-> userData.email,
                                              password |-> userData.password]}
             /\ UNCHANGED <<mock_tasks, now>>

login(credentials) ==
    LET users == mock_users
        i == findUser(users, credentials.email)
    IN  IF i = 0
        THEN /\ resp' = Call("login", Resolved(FALSE, "Invalid email or password", noData))
             /\ UNCHANGED <<store, idSeed, now, signedUp>>
        ELSE IF ~IsLatin1(credentials.password)
        THEN /\ resp' = Call("login", Rejected("InvalidCharacterError"))
             /\ UNCHANGED <<store, idSeed, now, signedUp>>
        ELSE IF ~verifyPassword(credentials.password, users[i].password)
        THEN /\ resp' = Call("login", Resolved(FALSE, "Invalid email or password", noData))
             /\ UNCHANGED <<store, idSeed, now, signedUp>>
        ELSE /\ idSeed + 1 <= MaxIds
             /\ idSeed' = idSeed + 1
             /\ LET userWithoutPassword == Rest(users[i], "password")
                    token == generateId(1)
                IN  /\ mock_token' = token
                    /\ mock_currentUser' = userWithoutPassword
                    /\ resp' = Call("login", Resolved(TRUE, "", [token |-> token, user |-> userWithoutPassword]))
             /\ UNCHANGED <<mock_users, mock_tasks, now, signedUp>>

getMe ==
    LET user == mock_currentUser
    IN  /\ resp' = IF user = null
                   THEN Call("getMe", Resolved(FALSE, "Not authenticated", noData))
                   ELSE Call("getMe", Resolved(TRUE, "", user))
        /\ UNCHANGED <<store, idSeed, now, signedUp>>

updateProfile(userData) ==
    LET user == mock_currentUser
    IN  IF user = null
        THEN /\ resp' = Call("updateProfile", Resolved(FALSE, "Not authenticated", noData))
             /\ UNCHANGED <<store, idSeed, now, signedUp>>
        ELSE LET updatedUser == Spread(user, userData)
                 users == mock_users
                 userIndex == FindById(users, user._id)
             IN  /\ mock_currentUser' = updatedUser
                 /\ mock_users' = IF userIndex # 0
                                  THEN [users EXCEPT ![userIndex] = Spread(users[userIndex], userData)]
                                  ELSE users
                 /\ resp' = Call("updateProfile", Resolved(TRUE, "", updatedUser))
                 /\ UNCHANGED <<mock_tasks, mock_token, idSeed, now, signedUp>>

changePassword(passwordData) ==
    LET user == mock_currentUser
    IN  IF user = null
        THEN /\ resp' = Call("changePassword", Resolved(FALSE, "Not authenticated", noData))
             /\ UNCHANGED <<store, idSeed, now, signedUp>>
        ELSE LET users == mock_users
                 userIndex == FindById(users, user._id)
             IN  IF userIndex = 0
                 THEN /\ resp' = Call("changePassword", Resolved(TRUE, "Password changed successfully", noData))
                      /\ UNCHANGED <<store, idSeed, now, signedUp>>
                 ELSE IF ~IsLatin1(passwordData.currentPassword)
                 THEN /\ resp' = Call("changePassword", Rejected("InvalidCharacterError"))
                      /\ UNCHANGED <<store, idSeed, now, signedUp>>
                 ELSE IF ~verifyPassword(passwordData.currentPassword, users[userIndex].password)
                 THEN /\ resp' = Call("changePassword", Resolved(FALSE, "Current password is incorrect", noData))
                      /\ UNCHANGED <<store, idSeed, now, signedUp>>
                 ELSE IF ~IsLatin1(passwordData.newPassword)
                 THEN /\ resp' = Call("changePassword", Rejected("InvalidCharacterError"))
                      /\ UNCHANGED <<store, idSeed, now, signedUp>>
                 ELSE /\ mock_users' = [users EXCEPT ![userIndex] =
                                           [@ EXCEPT !.password = hashPassword(passwordData.newPassword)]]
                      /\ resp' = Call("changePassword", Resolved(TRUE, "Password changed successfully", noData))
                      /\ UNCHANGED <<mock_tasks, mock_currentUser, mock_token, idSeed, now, signedUp>>

\* users.filter(u => u._id !== user._id)
withoutUser(users, id) == Filter(users, [i \in 1..Len(users) |-> users[i]._id # id])
\* A variant of deleteAccount's cascade that keeps every task.
withoutTasksOfNone(tasks, id) == tasks

\* tasks.filter(t => t.userId !== user._id)
withoutTasksOf(tasks, id) == Filter(tasks, [i \in 1..Len(tasks) |-> tasks[i].userId # id])

deleteAccount ==
    LET user == mock_currentUser
    IN  IF user = null
        THEN /\ resp' = Call("deleteAccount", Resolved(FALSE, "Not authenticated", noData))
             /\ UNCHANGED <<store, idSeed, now, signedUp>>
        ELSE /\ mock_users' = withoutUser(mock_users, user._id)
             /\ mock_tasks' = withoutTasksOf(mock_tasks, user._id)
             /\ mock_currentUser' = null
             /\ mock_token' = noToken
             /\ resp' = Call("deleteAccount", Resolved(TRUE, "Account deleted successfully", noData))
             /\ signedUp' = {h \in signedUp : h.id # user._id}
             /\ UNCHANGED <<idSeed, now>>

\* A variant of logout that clears the snapshot and keeps the token.
logoutSnapshotOnly ==
    /\ mock_currentUser' = null
    /\ resp' = Call("logout", Resolved(TRUE, "Logged out successfully", noData))
    /\ UNCHANGED <<mock_users, mock_tasks, mock_token, idSeed, now, signedUp>>

logout ==
    /\ mock_currentUser' = null
    /\ mock_token' = noToken
    /\ resp' = Call("logout", Resolved(TRUE, "Logged out successfully", noData))
    /\ UNCHANGED <<mock_users, mock_tasks, idSeed, now, signedUp>>

(***************************************************************************)
(* Text helpers of mockTaskAPI.getAll.                                     *)
(***************************************************************************)
\* String.prototype.toLowerCase on the ASCII letters
LowerUnit(c) == IF c >= 65 /\ c <= 90 THEN c + 32 ELSE c
toLowerCase(s) == [i \in 1..Len(s) |-> LowerUnit(s[i])]
\* String.prototype.includes
includes(s, sub) ==
    \E i \in 0..(Len(s) - Len(sub)) : SubSeq(s, i + 1, i + Len(sub)) = sub
\* a.localeCompare(b) on ASCII letters and spaces, as the root collation orders
\* them: by letter regardless of case, a space before any letter, a prefix
\* before its extensions; at a first difference in case only, lower case first
RECURSIVE LexCompare(_, _)
LexCompare(a, b) ==
    IF a = <<>> /\ b = <<>> THEN 0
    ELSE IF a = <<>> THEN -1
    ELSE IF b = <<>> THEN 1
    ELSE IF Head(a) < Head(b) THEN -1
    ELSE IF Head(a) > Head(b) THEN 1
    ELSE LexCompare(Tail(a), Tail(b))
localeCompare(a, b) ==
    LET primary == LexCompare(toLowerCase(a), toLowerCase(b))
    IN  IF primary # 0 THEN primary ELSE 0 - LexCompare(a, b)

(***************************************************************************)
(* Array.prototype.sort(comparator).  A comparator result that is not a    *)
(* number (NaN) is read by sort as +0; the comparators below return the    *)
(* value sort reads.  With a consistent comparator the result is the one   *)
(* stable ordering; with an inconsistent one the order is                  *)
(* implementation-defined: any permutation.                                *)
(***************************************************************************)
Perms(n) == {f \in [1..n -> 1..n] : \A i, j \in 1..n : i # j => f[i] # f[j]}
\* cmp[i, j] is comparator(s[i], s[j])
StableOrders(s, cmp) ==
    {f \in Perms(Len(s)) :
        \A i, j \in 1..Len(s) :
            i < j => \/ cmp[f[i], f[j]] < 0
                     \/ cmp[f[i], f[j]] = 0 /\ f[i] < f[j]}
sort(s, cmp) ==
    LET orders == IF StableOrders(s, cmp) # {} THEN StableOrders(s, cmp) ELSE Perms(Len(s))
    IN  {[i \in 1..Len(s) |-> s[f[i]]] : f \in orders}

\* const priorityOrder = { high: 1, medium: 2, low: 3 }; 0 stands for undefined
priorityOrder(p) ==
    IF p = "high" THEN 1 ELSE IF p = "medium" THEN 2 ELSE IF p = "low" THEN 3 ELSE 0
\* priorityOrder[a.priority] - priorityOrder[b.priority]; NaN is read as +0
byPriority(a, b) ==
    IF priorityOrder(a.priority) = 0 \/ priorityOrder(b.priority) = 0 THEN 0
    ELSE priorityOrder(a.priority) - priorityOrder(b.priority)
\* new Date(b.createdAt) - new Date(a.createdAt)
byNewest(a, b) == b.createdAt - a.createdAt
byOldest(a, b) == a.createdAt - b.createdAt
\* a.title.localeCompare(b.title); an undefined argument is the text "undefined"
undefinedText == <<117, 110, 100, 101, 102, 105, 110, 101, 100>>
titleKey(t) == IF Has(t, "title") THEN t.title ELSE undefinedText
byTitle(a, b) == localeCompare(titleKey(a), titleKey(b))

(***************************************************************************)
(* mockTaskAPI                                                             *)
(***************************************************************************)
\* params.k && ...: the key is present and not the empty string
TruthyStr(o, k) == Has(o, k) /\ o[k] # ""
TruthyText(o, k) == Has(o, k) /\ o[k] # <<>>

\* A variant of the filter by user that keeps the tasks of every user.
ownTasksOfAll(tasks, user) == tasks
\* tasks.filter(t => t.userId === user._id)
ownTasks(tasks, user) == Filter(tasks, [i \in 1..Len(tasks) |-> tasks[i].userId = user._id])
\* A variant of the status filter that treats every status as "all".
byStatusAll(tasks, params) == tasks
\* if (params.status && params.status !== 'all') tasks.filter(t => t.status === params.status)
byStatus(tasks, params) ==
    IF TruthyStr(params, "status") /\ params.status # "all"
    THEN Filter(tasks, [i \in 1..Len(tasks) |-> tasks[i].status = params.status])
    ELSE tasks
\* if (params.priority && params.priority !== 'all') ...
byPriorityFilter(tasks, params) ==
    IF TruthyStr(params, "priority") /\ params.priority # "all"
    THEN Filter(tasks, [i \in 1..Len(tasks) |-> tasks[i].priority = params.priority])
    ELSE tasks
\* the search filter reads t.title.toLowerCase(): a TypeError on a task without title
searchThrows(tasks, params) ==
    TruthyText(params, "search") /\ \E i \in 1..Len(tasks) : ~Has(tasks[i], "title")
bySearch(tasks, params) ==
    IF TruthyText(params, "search")
    THEN LET searchLower == toLowerCase(params.search)
         IN  Filter(tasks, [i \in 1..Len(tasks) |->
                 \/ includes(toLowerCase(tasks[i].title), searchLower)
                 \/ (tasks[i].description # <<>>
                       /\ includes(toLowerCase(tasks[i].description), searchLower))])
    ELSE tasks
\* the title comparator reads a.title.localeCompare: a TypeError when a task
\* without title is passed as a, which the engine's sort decides
sortMayThrow(tasks, params) ==
    /\ TruthyStr(params, "sort") /\ params.sort = "title"
    /\ Len(tasks) >= 2
    /\ \E i \in 1..Len(tasks) : ~Has(tasks[i], "title")
bySort(tasks, params) ==
    IF ~TruthyStr(params, "sort") THEN {tasks}
    ELSE IF params.sort = "newest" THEN sort(tasks, [i, j \in 1..Len(tasks) |-> byNewest(tasks[i], tasks[j])])
    ELSE IF params.sort = "oldest" THEN sort(tasks, [i, j \in 1..Len(tasks) |-> byOldest(tasks[i], tasks[j])])
    ELSE IF params.sort = "title" THEN sort(tasks, [i, j \in 1..Len(tasks) |-> byTitle(tasks[i], tasks[j])])
    ELSE IF params.sort = "priority" THEN sort(tasks, [i, j \in 1..Len(tasks) |-> byPriority(tasks[i], tasks[j])])
    ELSE {tasks}

\* every promise getAll(params) can settle with in the current Store
getAllResults(params) ==
    LET user == mock_currentUser
    IN  IF user = null
        THEN {Resolved(FALSE, "Not authenticated", noData)}
        ELSE LET filtered == byPriorityFilter(byStatus(ownTasks(mock_tasks, user), params), params)
             IN  IF searchThrows(filtered, params)
                 THEN {Rejected("TypeError")}
                 ELSE LET found == bySearch(filtered, params)
                      IN  (IF sortMayThrow(found, params) THEN {Rejected("TypeError")} ELSE {})
                          \cup {Resolved(TRUE, "", [data |-> tasks, total |-> Len(tasks)]) :
                                    tasks \in bySort(found, params)}

getAll(params) ==
    /\ \E result \in getAllResults(params) : resp' = Call("getAll", result)
    /\ UNCHANGED <<store, idSeed, now, signedUp>>

\* tasks.findIndex(t => t._id === id && t.userId === user._id): user._id is read,
\* and throws a TypeError when user is null, as soon as a task has this id
findThrows(tasks, user, id) == user = null /\ \E i \in 1..Len(tasks) : tasks[i]._id = id
\* A variant of the lookup that matches the identifier alone.
findOwnedById(tasks, user, id) == FindIndex(tasks, [i \in 1..Len(tasks) |-> tasks[i]._id = id])
findOwned(tasks, user, id) ==
    IF user = null THEN 0
    ELSE FindIndex(tasks, [i \in 1..Len(tasks) |-> tasks[i]._id = id /\ tasks[i].userId = user._id])

getOneResult(id) ==
    LET tasks == mock_tasks
        user == mock_currentUser
        i == findOwned(tasks, user, id)
    IN  IF findThrows(tasks, user, id) THEN Rejected("TypeError")
        ELSE IF i = 0 THEN Resolved(FALSE, "Task not found", noData)
        ELSE Resolved(TRUE, "", tasks[i])

getOne(id) ==
    /\ resp' = Call("getOne", getOneResult(id))
    /\ UNCHANGED <<store, idSeed, now, signedUp>>

\* taskData.k || fallback
\* A variant of the default that ignores the supplied value.
OrStrFallback(o, k, fallback) == fallback
\* o[k] || fallback
OrStr(o, k, fallback) == IF TruthyStr(o, k) THEN o[k] ELSE fallback
OrText(o, k, fallback) == IF TruthyText(o, k) THEN o[k] ELSE fallback

\* the object create stores; title: taskData.title stays undefined when absent
newTask(taskData, id, userId, created, updated) ==
    Spread([ _id |-> id,
             userId |-> userId,
             description |-> OrText(taskData, "description", <<>>),
             status |-> OrStr(taskData, "status", "pending"),
             priority |-> OrStr(taskData, "priority", "medium"),
             dueDate |-> OrStr(taskData, "dueDate", nullDate),
             createdAt |-> created,
             updatedAt |-> updated ],
           IF Has(taskData, "title") THEN [title |-> taskData.title] ELSE <<>>)

\* the write that loses what the Store held
pushOverwrite(tasks, task) == <<task>>
\* tasks.push(newTask) on the list getTasks() read
push(tasks, task) == Append(tasks, task)

create(taskData) ==
    LET user == mock_currentUser
    IN  IF user = null
        THEN /\ resp' = Call("create", Resolved(FALSE, "Not authenticated", noData))
             /\ UNCHANGED <<store, idSeed, now, signedUp>>
        ELSE /\ Len(mock_tasks) < MaxTasks
             /\ idSeed + 1 <= MaxIds
             /\ idSeed' = idSeed + 1
             /\ LET task == newTask(taskData, generateId(1), user._id, now, now)
                IN  /\ mock_tasks' = push(mock_tasks, task)
                    /\ resp' = Call("create", Resolved(TRUE, "", task))
             /\ UNCHANGED <<mock_users, mock_currentUser, mock_token, now, signedUp>>

\* { ...tasks[taskIndex], ...taskData, updatedAt: new Date().toISOString() }
merged(task, taskData, updated) == Spread(Spread(task, taskData), [updatedAt |-> updated])

\* the tasks update(id, taskData) leaves in the Store
tasksAfterUpdate(id, taskData) ==
    LET tasks == mock_tasks
        user == mock_currentUser
        taskIndex == findOwned(tasks, user, id)
    IN  IF findThrows(tasks, user, id) \/ taskIndex = 0 THEN tasks
        ELSE [tasks EXCEPT ![taskIndex] = merged(tasks[taskIndex], taskData, now)]

\* what update(id, taskData) settles with
updateResult(id, taskData) ==
    LET tasks == mock_tasks
        user == mock_currentUser
        taskIndex == findOwned(tasks, user, id)
    IN  IF findThrows(tasks, user, id) THEN Rejected("TypeError")
        ELSE IF taskIndex = 0 THEN Resolved(FALSE, "Task not found", noData)
        ELSE Resolved(TRUE, "", tasksAfterUpdate(id, taskData)[taskIndex])

update(id, taskData) ==
    LET tasks == mock_tasks
        user == mock_currentUser
        taskIndex == findOwned(tasks, user, id)
    IN  IF findThrows(tasks, user, id) \/ taskIndex = 0
        THEN /\ resp' = Call("update", updateResult(id, taskData))
             /\ UNCHANGED <<store, idSeed, now, signedUp>>
        ELSE /\ mock_tasks' = tasksAfterUpdate(id, taskData)
             /\ resp' = Call("update", updateResult(id, taskData))
             /\ UNCHANGED <<mock_users, mock_currentUser, mock_token, idSeed, now, signedUp>>

\* tasks.splice(taskIndex, 1)
splice(tasks, i) == SubSeq(tasks, 1, i - 1) \o SubSeq(tasks, i + 1, Len(tasks))

\* the tasks delete(id) leaves in the Store
tasksAfterDelete(id) ==
    LET tasks == mock_tasks
        user == mock_currentUser
        taskIndex == findOwned(tasks, user, id)
    IN  IF findThrows(tasks, user, id) \/ taskIndex = 0 THEN tasks
        ELSE splice(tasks, taskIndex)

\* what delete(id) settles with
deleteResult(id) ==
    LET tasks == mock_tasks
        user == mock_currentUser
        taskIndex == findOwned(tasks, user, id)
    IN  IF findThrows(tasks, user, id) THEN Rejected("TypeError")
        ELSE IF taskIndex = 0 THEN Resolved(FALSE, "Task not found", noData)
        ELSE Resolved(TRUE, "Task deleted successfully", noData)

delete(id) ==
    LET tasks == mock_tasks
        user == mock_currentUser
        taskIndex == findOwned(tasks, user, id)
    IN  IF findThrows(tasks, user, id) \/ taskIndex = 0
        THEN /\ resp' = Call("delete", deleteResult(id))
             /\ UNCHANGED <<store, idSeed, now, signedUp>>
        ELSE /\ mock_tasks' = tasksAfterDelete(id)
             /\ resp' = Call("delete", deleteResult(id))
             /\ UNCHANGED <<mock_users, mock_currentUser, mock_token, idSeed, now, signedUp>>

\* the counts getStats returns for userTasks
countStatus(userTasks, status) == Len(Filter(userTasks, [i \in 1..Len(userTasks) |-> userTasks[i].status = status]))
statsOf(userTasks) ==
    [ total |-> Len(userTasks),
      pending |-> countStatus(userTasks, "pending"),
      completed |-> countStatus(userTasks, "completed") ]
        @@ ("in-progress" :> countStatus(userTasks, "in-progress"))

\* tasks.filter(t => t.userId === user._id) reads user._id once per task:
\* a TypeError when user is null and a task is stored
getStatsResult ==
    LET tasks == mock_tasks
        user == mock_currentUser
    IN  IF user = null /\ tasks # <<>> THEN Rejected("TypeError")
        ELSE IF user = null THEN Resolved(TRUE, "", statsOf(<<>>))
        ELSE Resolved(TRUE, "", statsOf(ownTasks(tasks, user)))

getStats ==
    /\ resp' = Call("getStats", getStatsResult)
    /\ UNCHANGED <<store, idSeed, now, signedUp>>

\* time passes between calls
Tick ==
    /\ now < MaxTime
    /\ now' = now + 1
    /\ UNCHANGED <<store, idSeed, resp, signedUp>>

(***************************************************************************)
(* Inputs.                                                                 *)
(***************************************************************************)
Emails == {"ada@x.com", "bob@x.com"}
pwA == <<97>>                \* "a": btoa gives "YQ=="
pwAB == <<97, 98>>           \* "ab": btoa gives "YWI="
pwEuro == <<8364>>           \* the euro sign, U+20AC: btoa throws
Passwords == {pwA, pwAB, pwEuro}
Ada == [name |-> "Ada", email |-> "ada@x.com"]
Bob == [name |-> "Bob", email |-> "bob@x.com"]
People == {Ada, Bob}
SignupData == {Spread(Ada, [password |-> pwA]), Spread(Bob, [password |-> pwAB]),
               Spread(Bob, [password |-> pwEuro])}
\* what Profile.handleProfileSubmit sends, and a patch that carries a password
ProfilePatches == People \cup {[password |-> pwAB]}

TitleMax == 100
DescriptionMax == 500
Repeat(c, n) == [i \in 1..n |-> c]
titleA == <<97>>                         \* "a"
titleB == <<66>>                         \* "B"
titleBlank == <<32>>                     \* " "
titleLong == Repeat(97, TitleMax + 1)
descAB == <<97, 98>>                     \* "ab"
descLong == Repeat(97, DescriptionMax + 1)
Statuses == {"pending", "in-progress", "completed"}
Priorities == {"low", "medium", "high"}
Sorts == {"newest", "oldest", "title", "priority"}

\* the one task the Auth Service runs are given to store
TaskDataAuth == {[title |-> titleA]}
\* task data of the Repository runs: a full form, and a blank title with a
\* status outside the enumeration
TaskData ==
    { [title |-> titleB, description |-> descAB, status |-> "in-progress",
       priority |-> "high", dueDate |-> "2026-11-02"],
      [title |-> titleBlank, status |-> "done", priority |-> "low"] }
\* patches: a status change, and a patch that carries the userId of a stored
\* user (Bob's: another user's id in Ada's session, the own id in Bob's)
TaskPatches(users) ==
    { [status |-> "completed"] }
        \cup {[userId |-> u._id] : u \in {x \in Range(users) : x.email = Bob.email}}
\* task data of the creation runs: a title only, a full form, the blank form,
\* no title, texts over their limits, values outside the enumerations
TaskDataCreate ==
    { [title |-> titleA],
      [title |-> titleB, description |-> descAB, status |-> "completed",
       priority |-> "high", dueDate |-> "2026-11-02"],
      [title |-> <<>>, description |-> <<>>, status |-> "pending",
       priority |-> "medium", dueDate |-> ""],
      [description |-> descAB, status |-> "in-progress", priority |-> "low"],
      [title |-> titleLong],
      [title |-> titleA, description |-> descLong],
      [title |-> titleBlank, status |-> "done", priority |-> "urgent"] }
OptionalKey(k, values) == {<<>>} \cup {[j \in {k} |-> v] : v \in values}
\* the queries the runs issue: the Dashboard's initial filters, and one that
\* filters, searches and sorts
Queries ==
    { [status |-> "all", priority |-> "all", search |-> <<>>, sort |-> "newest"],
      [status |-> "completed", priority |-> "high", search |-> <<66>>, sort |-> "title"] }
\* the filters the Dashboard's selects can send, each absent or given
FilterParams ==
    { Spread(a, b) : a \in OptionalKey("status", Statuses \cup {"all"}),
                     b \in OptionalKey("priority", Priorities \cup {"all"}) }
\* the identifiers a call names: those of the stored tasks, and one of no task
unknownId == 0
KnownIds == {t._id : t \in Range(mock_tasks)} \cup {unknownId}

(***************************************************************************)
(* services/api.js (src/unnamed/part_001): the availability check and the  *)
(* routing of taskAPI.getAll, and Dashboard.fetchTasks, its caller.        *)
(* isBackendAvailable is "null", "true" or "false".  A call is at          *)
(*   "probing"  awaiting its GET /api/health,                              *)
(*   "checked"  checkBackend has returned `available`,                     *)
(*   "pending"  routed, awaiting the response,                             *)
(*   "done"     fetchTasks has read the response.                          *)
(***************************************************************************)
\* the Dashboard's filters state as useState initialises it
initialFilters == [search |-> <<>>, status |-> "all", priority |-> "all", sort |-> "newest"]

\* a promise fulfilled with a JavaScript value
Fulfilled(value) == [settled |-> "resolved", value |-> value]
\* the object a mock operation resolves with: success, and message and data
\* where the operation gave them
envelope(r) ==
    Spread(Spread([success |-> r.success],
                  IF r.message # "" THEN [message |-> r.message] ELSE <<>>),
           IF r.data # noData THEN [data |-> r.data] ELSE <<>>)
\* what the promise of a mock operation settles with
settlement(r) == IF r.settled = "rejected" THEN r ELSE Fulfilled(envelope(r))

\* the remote service's answers to GET /api/tasks as axios delivers them: the
\* response object whose data is the envelope with the server's list for the
\* query (here the server holds one pending task, which a status filter
\* selects or not), or a rejection for an HTTP error
serverTasks == <<[_id |-> 1, title |-> titleA, status |-> "pending"]>>
serverList(params) == byStatus(serverTasks, params)
RemoteSettlements(params) ==
    { Fulfilled([status |-> 200,
                 data |-> [success |-> TRUE,
                           data |-> [data |-> serverList(params),
                                     total |-> Len(serverList(params))]]]),
      Rejected("AxiosError") }

\* checkBackend: the memoized result is returned once it is set; until then
\* every call sends its own GET /api/health
mustProbe(flag) == flag = "null"

\* a call of an operation of taskAPI with its argument, as checkBackend leaves
\* it at its first await: returned from with the flag, or awaiting the probe
newCall(op, arg, flag) ==
    [op |-> op, arg |-> arg, pc |-> IF mustProbe(flag) THEN "probing" ELSE "checked",
     available |-> flag, response |-> Rejected("none"), branch |-> ""]

\* fetchTasks with the filters of the render that calls it: it calls
\* taskAPI.getAll, which calls checkBackend, which runs up to its first await
fetchTasksWith(params) ==
    /\ Len(calls) < MaxCalls
    /\ calls' = Append(calls, newCall("getAll", params, isBackendAvailable))
    /\ probes' = IF mustProbe(isBackendAvailable) THEN probes + 1 ELSE probes
    /\ UNCHANGED <<store, idSeed, now, resp, signedUp, isBackendAvailable, ui_tasks, toast, context>>

\* fetchTasks is called on mount, and again by the handlers that changed a task
fetchTasks ==
    /\ fetchTasksWith(filters)
    /\ UNCHANGED filters

\* a select changes: setFilters, and the effect on [filters] calls fetchTasks
handleFilterChange(key, value) ==
    /\ filters' = Spread(filters, [k \in {key} |-> value])
    /\ fetchTasksWith(filters')

\* the GET /api/health of call c ends: with a response, or with a failure or
\* the timeout; checkBackend sets the flag and returns it
checkBackend(c, ok) ==
    /\ calls[c].pc = "probing"
    /\ isBackendAvailable' = ok
    /\ calls' = [calls EXCEPT ![c].pc = "checked", ![c].available = ok]
    /\ UNCHANGED <<store, idSeed, now, resp, signedUp, probes, ui_tasks, toast, filters, context>>

\* taskAPI.getAll after its await: api.get('/tasks') when available
getAllRemote(c) ==
    /\ calls[c].op = "getAll"
    /\ calls[c].pc = "checked"
    /\ calls[c].available = "true"
    /\ \E answer \in RemoteSettlements(calls[c].arg) :
          calls' = [calls EXCEPT ![c].pc = "pending", ![c].response = answer]
    /\ UNCHANGED <<store, idSeed, now, resp, signedUp, isBackendAvailable, probes, ui_tasks, toast, filters, context>>

\* taskAPI.getAll after its await: mockTaskAPI.getAll(params) otherwise
getAllLocal(c) ==
    /\ calls[c].op = "getAll"
    /\ calls[c].pc = "checked"
    /\ calls[c].available = "false"
    /\ getAll(calls[c].arg)
    /\ calls' = [calls EXCEPT ![c].pc = "pending", ![c].response = settlement(resp'.result)]
    /\ UNCHANGED <<isBackendAvailable, probes, ui_tasks, toast, filters, context>>

\* fetchTasks from `const result = response.data` on: the branch it takes and
\* the list it hands to setTasks.  Reading a property of undefined throws, and
\* the catch shows the same toast as the else branch.
fetchTasksReads(response) ==
    IF response.settled = "rejected" THEN [branch |-> "catch", tasks |-> <<>>]
    ELSE IF ~Has(response.value, "data") THEN [branch |-> "catch", tasks |-> <<>>]
    ELSE LET result == response.value.data
         IN  IF ~(Has(result, "success") /\ result.success)
             THEN [branch |-> "else", tasks |-> <<>>]
             ELSE IF ~Has(result, "data") THEN [branch |-> "catch", tasks |-> <<>>]
             ELSE IF ~Has(result.data, "data") THEN [branch |-> "setTasks", tasks |-> <<>>]
             ELSE [branch |-> "setTasks", tasks |-> result.data.data]

\* the response of call c arrives and fetchTasks resumes
fetchTasksResumes(c) ==
    /\ calls[c].op = "getAll"
    /\ calls[c].pc = "pending"
    /\ LET reads == fetchTasksReads(calls[c].response)
       IN  /\ calls' = [calls EXCEPT ![c].pc = "done", ![c].branch = reads.branch]
           /\ IF reads.branch = "setTasks"
              THEN ui_tasks' = reads.tasks /\ UNCHANGED toast
              ELSE toast' = "Failed to fetch tasks" /\ UNCHANGED ui_tasks
    /\ UNCHANGED <<store, idSeed, now, resp, signedUp, isBackendAvailable, probes, filters, context>>

\* taskAPI.create(taskData) is called: it runs up to the await in checkBackend
taskAPI_create(taskData) ==
    /\ Len(calls) < MaxCalls
    /\ calls' = Append(calls, newCall("create", taskData, isBackendAvailable))
    /\ probes' = IF mustProbe(isBackendAvailable) THEN probes + 1 ELSE probes
    /\ UNCHANGED <<store, idSeed, now, resp, signedUp, isBackendAvailable, ui_tasks, toast, filters, context>>

\* taskAPI.create after its await: mockTaskAPI.create(taskData) when the
\* backend is not available.  The mock runs from getCurrentUser() to
\* saveTasks(tasks) without an await, and returns the promise simulateDelay
\* resolves later
createLocal(c) ==
    /\ calls[c].op = "create"
    /\ calls[c].pc = "checked"
    /\ calls[c].available = "false"
    /\ create(calls[c].arg)
    /\ calls' = [calls EXCEPT ![c].pc = "pending", ![c].response = settlement(resp'.result)]
    /\ UNCHANGED <<isBackendAvailable, probes, ui_tasks, toast, filters, context>>

\* the timer of simulateDelay fires: the promise of call c resolves with the
\* envelope and the caller's await returns
createReturns(c) ==
    /\ calls[c].op = "create"
    /\ calls[c].pc = "pending"
    /\ calls' = [calls EXCEPT ![c].pc = "done"]
    /\ UNCHANGED <<store, idSeed, now, resp, signedUp, isBackendAvailable, probes, ui_tasks, toast, filters, context>>

(***************************************************************************)
(* AuthContext (src/frontend/src/context/AuthContext.jsx) over the local   *)
(* route: the backend is unreachable, so the probe of an operation that    *)
(* finds the flag unset fails, and authAPI calls mockAuthAPI.  An          *)
(* operation runs from its call to its return: the await of the mock's     *)
(* promise lets no other operation of these runs in between.               *)
(* AuthContext's `error` state is the message it returns, null on success. *)
(***************************************************************************)
\* JavaScript's undefined, and the item localStorage.setItem('user',
\* JSON.stringify(undefined)) stores: the text "undefined"
undefined == [undefined |-> TRUE]
undefinedItem == [text |-> "undefined"]
\* !!value
Truthy(value) == value # null /\ value # undefined

\* checkBackend with the backend unreachable: the flag is, or becomes, false
routedLocally ==
    /\ isBackendAvailable # "true"
    /\ isBackendAvailable' = "false"
    /\ probes' = IF mustProbe(isBackendAvailable) THEN probes + 1 ELSE probes

\* err.response?.data?.message || fallback, for an error that is not an axios
\* error with a response: the mock's exceptions and the TypeError of reading
\* a property of undefined carry no response
messageOf(error, fallback) == fallback

\* login and signup after the await: const { token, user: userData } =
\* response.data throws when response.data is undefined
sessionReads(response, fallback) ==
    IF response.settled = "rejected" THEN [success |-> FALSE, message |-> messageOf(response, fallback)]
    ELSE IF ~Has(response.value, "data") THEN [success |-> FALSE, message |-> messageOf(response, fallback)]
    ELSE [success |-> TRUE, message |-> "",
          token |-> response.value.data.token, userData |-> response.value.data.user]

\* what login and signup do with what they read
startsSession(reads) ==
    /\ returned' = [success |-> reads.success, message |-> reads.message]
    /\ IF reads.success
       THEN /\ ls_token' = reads.token
            /\ ls_user' = reads.userData
            /\ auth_user' = reads.userData
       ELSE UNCHANGED <<auth_user, ls_token, ls_user>>

AuthContext_login(email, password) ==
    /\ routedLocally
    /\ login([email |-> email, password |-> password])
    /\ startsSession(sessionReads(settlement(resp'.result), "Login failed"))
    /\ UNCHANGED <<calls, ui_tasks, toast, filters>>

AuthContext_signup(name, email, password) ==
    /\ routedLocally
    /\ signup([name |-> name, email |-> email, password |-> password])
    /\ startsSession(sessionReads(settlement(resp'.result), "Signup failed"))
    /\ UNCHANGED <<calls, ui_tasks, toast, filters>>

\* logout calls no API: it clears the caller's items and state only
AuthContext_logout ==
    /\ ls_token' = noToken
    /\ ls_user' = null
    /\ auth_user' = null
    /\ UNCHANGED <<store, idSeed, now, resp, signedUp, isBackendAvailable, calls, probes,
                   ui_tasks, toast, filters, returned>>

\* response.data of a fulfilled promise
dataOf(response) == IF Has(response.value, "data") THEN response.value.data ELSE undefined
\* JSON.stringify(value) as localStorage keeps it
stringify(value) == IF value = undefined THEN undefinedItem ELSE value

AuthContext_updateProfile(userData) ==
    /\ routedLocally
    /\ updateProfile(userData)
    /\ LET response == settlement(resp'.result)
       IN  IF response.settled = "rejected"
           THEN /\ returned' = [success |-> FALSE, message |-> messageOf(response, "Update failed")]
                /\ UNCHANGED <<auth_user, ls_user>>
           ELSE /\ auth_user' = dataOf(response)
                /\ ls_user' = stringify(dataOf(response))
                /\ returned' = [success |-> TRUE, message |-> ""]
    /\ UNCHANGED <<calls, ui_tasks, toast, filters, ls_token>>

AuthContext_deleteAccount ==
    /\ routedLocally
    /\ deleteAccount
    /\ LET response == settlement(resp'.result)
       IN  IF response.settled = "rejected"
           THEN /\ returned' = [success |-> FALSE, message |-> messageOf(response, "Delete failed")]
                /\ UNCHANGED <<auth_user, ls_token, ls_user>>
           ELSE /\ ls_token' = noToken
                /\ ls_user' = null
                /\ auth_user' = null
                /\ returned' = [success |-> TRUE, message |-> ""]
    /\ UNCHANGED <<calls, ui_tasks, toast, filters>>

\* authAPI.getMe over the local route
authAPI_getMe ==
    /\ routedLocally
    /\ getMe
    /\ UNCHANGED <<calls, ui_tasks, toast, filters, context>>

(***************************************************************************)
(* authAPI over the remote route: the request each operation sends         *)
(* (src/unnamed/part_001) and the routes the backend's auth router         *)
(* registers (src/backend/routes/auth.js).                                 *)
(***************************************************************************)
\* baseURL of the axios instance
API_URL == "/api"
\* the method and path of each operation of authAPI
authRoutes ==
    [signup         |-> [method |-> "POST",   path |-> "/auth/signup"],
     login          |-> [method |-> "POST",   path |-> "/auth/login"],
     getMe          |-> [method |-> "GET",    path |-> "/auth/me"],
     updateProfile  |-> [method |-> "PUT",    path |-> "/auth/updateprofile"],
     changePassword |-> [method |-> "PUT",    path |-> "/auth/changepassword"],
     deleteAccount  |-> [method |-> "DELETE", path |-> "/auth/deleteaccount"],
     logout         |-> [method |-> "POST",   path |-> "/auth/logout"]]
\* the request an operation sends
requestOf(op) == [method |-> authRoutes[op].method, url |-> API_URL \o authRoutes[op].path]

\* where the server mounts the auth router
authMount == "/api/auth"
\* router.post / get / put / delete of routes/auth.js
router ==
    { [method |-> "POST",   path |-> "/signup"],
      [method |-> "POST",   path |-> "/login"],
      [method |-> "GET",    path |-> "/me"],
      [method |-> "PUT",    path |-> "/updateprofile"],
      [method |-> "PUT",    path |-> "/changepassword"],
      [method |-> "DELETE", path |-> "/deleteaccount"] }
\* the requests the router has a handler for
registered == {[method |-> r.method, url |-> authMount \o r.path] : r \in router}

\* what axios settles with: a registered route answers with an envelope or
\* with an HTTP error, a request no route matches gets 404 Not Found
routerAnswers(request) ==
    IF request \in registered
    THEN {Fulfilled([status |-> 200, data |-> [success |-> TRUE]]), Rejected("AxiosError")}
    ELSE {Rejected("AxiosError 404")}

\* an operation of authAPI is called: it runs up to the await in checkBackend
authAPI_call(op) ==
    /\ Len(calls) < MaxCalls
    /\ calls' = Append(calls, newCall(op, <<>>, isBackendAvailable))
    /\ probes' = IF mustProbe(isBackendAvailable) THEN probes + 1 ELSE probes
    /\ UNCHANGED <<store, idSeed, now, resp, signedUp, isBackendAvailable, ui_tasks, toast, filters, context>>

\* the operation after its await, the backend available: api.post / get /
\* put / delete of its path
authRemote(c) ==
    /\ calls[c].op \in DOMAIN authRoutes
    /\ calls[c].pc = "checked"
    /\ calls[c].available = "true"
    /\ \E answer \in routerAnswers(requestOf(calls[c].op)) :
          calls' = [calls EXCEPT ![c].pc = "pending", ![c].response = answer]
    /\ UNCHANGED <<store, idSeed, now, resp, signedUp, isBackendAvailable, probes, ui_tasks, toast, filters, context>>

\* the response arrives and the caller's await returns or throws
authReturns(c) ==
    /\ calls[c].op \in DOMAIN authRoutes
    /\ calls[c].pc = "pending"
    /\ calls' = [calls EXCEPT ![c].pc = "done"]
    /\ UNCHANGED <<store, idSeed, now, resp, signedUp, isBackendAvailable, probes, ui_tasks, toast, filters, context>>

(***************************************************************************)
(* The handlers of Dashboard.jsx and Profile.jsx that show a toast, over   *)
(* the local route.  A handler runs from its validation to its toast: what *)
(* happens during its awaits does not change the response it reads.        *)
(***************************************************************************)
\* String.prototype.trim() leaves nothing: every code unit is white space
WhiteSpace == {9, 10, 11, 12, 13, 32, 160}
IsBlank(s) == \A i \in 1..Len(s) : s[i] \in WhiteSpace

\* validateForm returns no error
validateForm(formData) ==
    /\ ~IsBlank(formData.title)
    /\ Len(formData.title) <= TitleMax
    /\ Len(formData.description) <= DescriptionMax

\* the fetchTasks() a handler ends with: the flag is set by now, so the call
\* goes through checkBackend without a probe
refetch == Append(calls, newCall("getAll", filters, isBackendAvailable'))

\* handleSubmit: taskAPI.update for the task being edited, taskAPI.create
\* otherwise; the success toast follows the await whatever it resolved with
handleSubmit(editingTask, formData) ==
    /\ validateForm(formData)
    /\ Len(calls) < MaxCalls
    /\ routedLocally
    /\ IF editingTask # null
       THEN update(editingTask._id, formData)
       ELSE create(formData)
    /\ IF resp'.result.settled = "rejected"
       THEN toast' = "Operation failed" /\ UNCHANGED calls
       ELSE /\ toast' = IF editingTask # null THEN "Task updated successfully"
                                              ELSE "Task created successfully"
            /\ calls' = refetch
    /\ UNCHANGED <<ui_tasks, filters, context>>

\* handleDelete of a displayed task, confirmed
handleDelete(id) ==
    /\ Len(calls) < MaxCalls
    /\ routedLocally
    /\ delete(id)
    /\ IF resp'.result.settled = "rejected"
       THEN toast' = "Failed to delete task" /\ UNCHANGED calls
       ELSE toast' = "Task deleted successfully" /\ calls' = refetch
    /\ UNCHANGED <<ui_tasks, filters, context>>

\* Profile.validatePassword returns no error
PasswordMin == 6
validatePassword(formData) ==
    /\ formData.currentPassword # <<>>
    /\ ~(formData.newPassword # <<>> /\ Len(formData.newPassword) < PasswordMin)
    /\ formData.newPassword = formData.confirmPassword

\* Profile.handlePasswordChange
handlePasswordChange(formData) ==
    /\ validatePassword(formData)
    /\ routedLocally
    /\ changePassword([currentPassword |-> formData.currentPassword,
                       newPassword |-> formData.newPassword])
    /\ toast' = IF resp'.result.settled = "rejected"
                THEN "Failed to change password"
                ELSE "Password changed successfully"
    /\ UNCHANGED <<calls, ui_tasks, filters, context>>

Init ==
    /\ mock_users = <<>>
    /\ mock_tasks = <<>>
    /\ mock_currentUser = null
    /\ mock_token = noToken
    /\ idSeed = 0
    /\ now = 0
    /\ resp = Call("init", Resolved(TRUE, "", noData))
    /\ signedUp = {}
    /\ isBackendAvailable = "null"
    /\ calls = <<>>
    /\ probes = 0
    /\ ui_tasks = <<>>
    /\ toast = ""
    /\ filters = initialFilters
    /\ auth_user = null
    /\ ls_token = noToken
    /\ ls_user = null
    /\ returned = [success |-> TRUE, message |-> ""]

\* the Auth Service under every input, over a Store that also holds tasks
Next ==
    \/ \E userData \in SignupData : signup(userData) /\ UNCHANGED dispatch
    \/ \E e \in Emails, p \in Passwords : login([email |-> e, password |-> p]) /\ UNCHANGED dispatch
    \/ getMe /\ UNCHANGED dispatch
    \/ \E patch \in ProfilePatches : updateProfile(patch) /\ UNCHANGED dispatch
    \/ \E c \in Passwords, n \in Passwords :
           changePassword([currentPassword |-> c, newPassword |-> n]) /\ UNCHANGED dispatch
    \/ deleteAccount /\ UNCHANGED dispatch
    \/ logout /\ UNCHANGED dispatch
    \/ \E taskData \in TaskDataAuth : create(taskData) /\ UNCHANGED dispatch

Spec == Init /\ [][Next]_vars

\* the Task Repository for two users who sign up, log in and out with one
\* password
NextTasks ==
    \/ \E who \in People : signup(Spread(who, [password |-> pwA])) /\ UNCHANGED dispatch
    \/ \E e \in Emails : login([email |-> e, password |-> pwA]) /\ UNCHANGED dispatch
    \/ logout /\ UNCHANGED dispatch
    \/ \E params \in Queries : getAll(params) /\ UNCHANGED dispatch
    \/ \E taskData \in TaskData : create(taskData) /\ UNCHANGED dispatch
    \/ \E id \in KnownIds, taskData \in TaskPatches(mock_users) : update(id, taskData) /\ UNCHANGED dispatch
    \/ \E id \in KnownIds : delete(id) /\ UNCHANGED dispatch
    \/ getStats /\ UNCHANGED dispatch

SpecTasks == Init /\ [][NextTasks]_vars

\* creation and retrieval under every task data, for one user
NextCreate ==
    \/ signup([name |-> "Ada", email |-> "ada@x.com", password |-> pwA]) /\ UNCHANGED dispatch
    \/ logout /\ UNCHANGED dispatch
    \/ \E taskData \in TaskDataCreate : create(taskData) /\ UNCHANGED dispatch
    \/ \E id \in KnownIds : getOne(id) /\ UNCHANGED dispatch
    \/ Tick /\ UNCHANGED dispatch

SpecCreate == Init /\ [][NextCreate]_vars

\* patches that name an owner: a stored user's id, and an id of no user
\* (generateId yields none below 1)
OwnerPatches(users) == {[userId |-> u._id] : u \in Range(users)} \cup {[userId |-> unknownId]}

\* tasks and their owners: users come and go, tasks are created and updated
NextOwners ==
    \/ \E who \in People : signup(Spread(who, [password |-> pwA])) /\ UNCHANGED dispatch
    \/ \E e \in Emails : login([email |-> e, password |-> pwA]) /\ UNCHANGED dispatch
    \/ logout /\ UNCHANGED dispatch
    \/ deleteAccount /\ UNCHANGED dispatch
    \/ \E taskData \in TaskDataAuth : create(taskData) /\ UNCHANGED dispatch
    \/ \E id \in KnownIds, taskData \in OwnerPatches(mock_users) : update(id, taskData) /\ UNCHANGED dispatch

SpecOwners == Init /\ [][NextOwners]_vars

\* the values the runs pick in the status select
StatusChoices == {"all", "completed"}

\* one page load of the Dashboard over the Store as earlier page loads left
\* it (a user, a session, tasks): fetchTasks calls, their probes in any order
\* and with any outcome, the routed requests and their responses
NextDispatch ==
    \/ signup(Spread(Ada, [password |-> pwA])) /\ calls = <<>> /\ UNCHANGED dispatch
    \/ \E taskData \in TaskDataAuth : create(taskData) /\ calls = <<>> /\ UNCHANGED dispatch
    \/ fetchTasks
    \/ \E value \in StatusChoices : handleFilterChange("status", value)
    \/ \E c \in 1..Len(calls), ok \in {"true", "false"} : checkBackend(c, ok)
    \/ \E c \in 1..Len(calls) : getAllRemote(c)
    \/ \E c \in 1..Len(calls) : getAllLocal(c)
    \/ \E c \in 1..Len(calls) : fetchTasksResumes(c)

SpecDispatch == Init /\ [][NextDispatch]_vars

\* AuthContext under every input, the backend being unreachable
NextContext ==
    \/ \E d \in SignupData : AuthContext_signup(d.name, d.email, d.password)
    \/ \E e \in Emails, p \in Passwords : AuthContext_login(e, p)
    \/ AuthContext_logout
    \/ \E patch \in People : AuthContext_updateProfile(patch)
    \/ AuthContext_deleteAccount
    \/ authAPI_getMe

SpecContext == Init /\ [][NextContext]_vars

\* the Store after Ada has signed up and created MaxSorted tasks, each with a
\* priority the form offers or with one it does not, while time passed or not
\* between the calls
SortedPriorities == Priorities \cup {"urgent"}
createdTask(k, priority, created) ==
    newTask([title |-> titleA, priority |-> priority], 2 + k, 1, created, created)
InitSort ==
    /\ mock_users = <<[_id |-> 1, name |-> Ada.name, email |-> Ada.email,
                       password |-> hashPassword(pwA), createdAt |-> 0]>>
    /\ mock_currentUser = Rest(mock_users[1], "password")
    /\ mock_token = 2
    /\ \E ps \in [1..MaxSorted -> SortedPriorities], at \in [1..MaxSorted -> 0..MaxTime] :
          /\ \A i, j \in 1..MaxSorted : i < j => at[i] <= at[j]
          /\ mock_tasks = [k \in 1..MaxSorted |-> createdTask(k, ps[k], at[k])]
          /\ now = at[MaxSorted]
    /\ idSeed = 2 + MaxSorted
    /\ resp = Call("create", Resolved(TRUE, "", mock_tasks[MaxSorted]))
    /\ signedUp = {[id |-> 1, email |-> Ada.email, password |-> pwA]}
    /\ isBackendAvailable = "null"
    /\ calls = <<>>
    /\ probes = 0
    /\ ui_tasks = <<>>
    /\ toast = ""
    /\ filters = initialFilters
    /\ auth_user = null
    /\ ls_token = noToken
    /\ ls_user = null
    /\ returned = [success |-> TRUE, message |-> ""]

\* the sort values a list can name: the four of the select, one it does not
\* know, and none
SortParams == {[sort |-> v] : v \in Sorts \cup {"random"}} \cup {<<>>}

\* lists of that Store under every sort value
NextSort ==
    \/ \E params \in SortParams : getAll(params) /\ UNCHANGED dispatch

SpecSort == InitSort /\ [][NextSort]_vars

\* the task forms the concurrent creates send
CreateForms == {[title |-> titleA], [title |-> titleB, priority |-> "high"]}

\* calls of taskAPI.create in flight at once, with the backend unreachable
NextCreates ==
    \/ signup(Spread(Ada, [password |-> pwA])) /\ UNCHANGED dispatch
    \/ \E taskData \in CreateForms : taskAPI_create(taskData)
    \/ \E c \in 1..Len(calls) : checkBackend(c, "false")
    \/ \E c \in 1..Len(calls) : createLocal(c)
    \/ \E c \in 1..Len(calls) : createReturns(c)

SpecCreates == Init /\ [][NextCreates]_vars

\* what the task form holds when it is submitted: as openModal resets it with
\* a title typed in, with the selects changed, and with a blank title
TaskForms ==
    { [title |-> titleA, description |-> <<>>, status |-> "pending",
       priority |-> "medium", dueDate |-> ""],
      [title |-> titleB, description |-> descAB, status |-> "completed",
       priority |-> "high", dueDate |-> ""],
      [title |-> titleBlank, description |-> <<>>, status |-> "pending",
       priority |-> "medium", dueDate |-> ""] }
\* what the password form holds: the right or a wrong current password, and
\* a new password that is empty, too short, valid, or not confirmed
pwNew == <<97, 98, 99, 100, 101, 102>>   \* "abcdef": btoa gives "YWJjZGVm"
PasswordForms ==
    { [currentPassword |-> c, newPassword |-> n, confirmPassword |-> k] :
        c \in {pwA, pwAB}, n \in {<<>>, pwAB, pwNew}, k \in {<<>>, pwNew} }
\* the task the form edits: one of the displayed tasks, or none
Editable == Range(ui_tasks) \cup {null}

\* the Dashboard and the Profile page in use: the list is fetched while the
\* backend answers a probe or not, and the handlers run once it does not
NextHandlers ==
    \/ /\ calls = <<>>
       /\ signup(Spread(Ada, [password |-> pwA])) /\ UNCHANGED dispatch
    \/ fetchTasks
    \/ \E c \in 1..Len(calls), ok \in {"true", "false"} : checkBackend(c, ok)
    \/ \E c \in 1..Len(calls) : getAllRemote(c)
    \/ \E c \in 1..Len(calls) : getAllLocal(c)
    \/ \E c \in 1..Len(calls) : fetchTasksResumes(c)
    \/ \E editingTask \in Editable, formData \in TaskForms : handleSubmit(editingTask, formData)
    \/ \E task \in Range(ui_tasks) : handleDelete(task._id)
    \/ \E formData \in PasswordForms : handlePasswordChange(formData)

SpecHandlers == Init /\ [][NextHandlers]_vars

\* the operations of authAPI called while the backend is reachable
NextRoutes ==
    \/ \E op \in DOMAIN authRoutes : authAPI_call(op)
    \/ \E c \in 1..Len(calls) : checkBackend(c, "true")
    \/ \E c \in 1..Len(calls) : authRemote(c)
    \/ \E c \in 1..Len(calls) : authReturns(c)

SpecRoutes == Init /\ [][NextRoutes]_vars

-----------------------------------------------------------------------------
(* Properties of the Auth Service, over Spec.                               *)

LoginData == {[email |-> e, password |-> p] : e \in Emails, p \in Passwords}
PasswordData == {[currentPassword |-> c, newPassword |-> n] : c \in Passwords, n \in Passwords}

\* The stored record of a signup still carries the email and the credential
\* the signup gave it.
Untouched(h) ==
    \E i \in 1..Len(mock_users) :
        /\ mock_users[i]._id = h.id
        /\ mock_users[i].email = h.email
        /\ IsLatin1(h.password)
        /\ mock_users[i].password = hashPassword(h.password)

\* C1: a login with the email and password of an earlier successful signup,
\* whose account still exists with that email and that password, succeeds and
\* returns the user identifier the signup returned, whatever ran in between.
C1_LoginReturnsSignupId ==
    [][\A c \in LoginData : \A h \in signedUp :
          (login(c) /\ c.email = h.email /\ c.password = h.password /\ Untouched(h))
              => (IsOk(resp') /\ resp'.result.data.user._id = h.id)]_vars

\* C2: a signup whose email is already the email of a stored user fails with
\* "Email already registered" and leaves users, tasks and the session as they were.
C2_DuplicateSignupRejected ==
    [][\A d \in SignupData :
          (signup(d) /\ \E u \in Range(mock_users) : u.email = d.email)
              => /\ IsFail(resp')
                 /\ resp'.result.message = "Email already registered"
                 /\ UNCHANGED store]_vars

C2_Witness ==
    /\ resp.op = "signup"
    /\ IsFail(resp)
    /\ resp.result.message = "Email already registered"
    /\ mock_users # <<>>

\* The password is the one stored for the first user carrying the email.
Matches(password, hashed) == IsLatin1(password) /\ hashPassword(password) = hashed

\* C3: a login whose email is unknown, or whose password does not match the
\* stored credential, returns the Unauthorized envelope (success = false) and
\* leaves the session token and the session user unchanged.
C3_BadLoginUnauthorized ==
    [][\A c \in LoginData :
          (/\ login(c)
           /\ LET i == findUser(mock_users, c.email)
              IN  i = 0 \/ ~Matches(c.password, mock_users[i].password))
              => /\ IsFail(resp')
                 /\ UNCHANGED <<mock_token, mock_currentUser>>]_vars

\* C4: for a session whose user is stored, changePassword with a current
\* password that does not match does not succeed and leaves the stored
\* credential unchanged; with a matching current password it succeeds and the
\* stored credential becomes the one of the new password, so that only the new
\* password verifies afterwards.
C4_ChangePassword ==
    [][\A d \in PasswordData :
          (changePassword(d) /\ mock_currentUser # null)
              => LET i == FindById(mock_users, mock_currentUser._id)
                 IN  i # 0 =>
                       IF Matches(d.currentPassword, mock_users[i].password)
                       THEN /\ IsOk(resp')
                            /\ Matches(d.newPassword, mock_users'[i].password)
                            /\ (d.newPassword # d.currentPassword
                                  => ~Matches(d.currentPassword, mock_users'[i].password))
                       ELSE /\ ~IsOk(resp')
                            /\ mock_users' = mock_users]_vars

\* C5: deleteAccount with a session removes the current user's record and every
\* task owned by that user, keeps every other user and every other task, and
\* clears the session token and the session user.
C5_DeleteAccountCascade ==
    [][(deleteAccount /\ mock_currentUser # null)
          => LET id == mock_currentUser._id
             IN  /\ \A u \in Range(mock_users') : u._id # id
                 /\ \A t \in Range(mock_tasks') : t.userId # id
                 /\ \A u \in Range(mock_users) : u._id # id => u \in Range(mock_users')
                 /\ \A t \in Range(mock_tasks) : t.userId # id => t \in Range(mock_tasks')
                 /\ Range(mock_users') \subseteq Range(mock_users)
                 /\ Range(mock_tasks') \subseteq Range(mock_tasks)
                 /\ mock_token' = noToken
                 /\ mock_currentUser' = null]_vars

\* After a deleteAccount, a task of another user is still stored.
C5_Witness ==
    /\ resp.op = "deleteAccount"
    /\ IsOk(resp)
    /\ mock_tasks # <<>>
    /\ \E u \in Range(mock_users) : \E t \in Range(mock_tasks) : t.userId = u._id
    /\ mock_currentUser = null

-----------------------------------------------------------------------------
(* Properties of the Task Repository, over SpecTasks.                       *)

\* the task belongs to the session's user
Own(t) == mock_currentUser # null /\ t.userId = mock_currentUser._id

\* the queries of the isolation property: none, the Dashboard's, each sort
ListQueries == Queries \cup {<<>>} \cup {[sort |-> v] : v \in Sorts}

\* every task a list answers belongs to the session's user
C6_ListIsolation ==
    \A params \in ListQueries : \A r \in getAllResults(params) :
        (r.settled = "resolved" /\ r.success) => \A t \in Range(r.data.data) : Own(t)

\* the task a get answers belongs to the session's user
C6_GetIsolation ==
    \A id \in KnownIds :
        LET r == getOneResult(id)
        IN  (r.settled = "resolved" /\ r.success) => Own(r.data)

\* update and delete leave every task of another user as it is
C6_WriteIsolation ==
    /\ \A id \in KnownIds : \A patch \in TaskPatches(mock_users) :
         LET after == tasksAfterUpdate(id, patch)
         IN  /\ Len(after) = Len(mock_tasks)
             /\ \A j \in 1..Len(mock_tasks) : ~Own(mock_tasks[j]) => after[j] = mock_tasks[j]
    /\ \A id \in KnownIds :
         LET after == tasksAfterDelete(id)
         IN  /\ \A t \in Range(mock_tasks) : ~Own(t) => t \in Range(after)
             /\ Range(after) \subseteq Range(mock_tasks)

\* C6: after any sequence of signups, logins, logouts and task operations by
\* several users, list returns only tasks whose userId is the id of the
\* session's user; get reads only such a task; update changes and delete
\* removes no task whose userId differs from that id.
C6_Isolation == C6_ListIsolation /\ C6_GetIsolation /\ C6_WriteIsolation

\* A list answered with a task while another user's task is stored.
C6_Witness ==
    /\ resp.op = "getAll"
    /\ IsOk(resp)
    /\ resp.result.data.data # <<>>
    /\ \E t \in Range(mock_tasks) : ~Own(t)

Selected(params, k, t) == (Has(params, k) /\ params[k] # "all") => t[k] = params[k]

\* C7: with a session, list({status: s, priority: p}) returns exactly the
\* current user's tasks whose status equals s when s is pending, in-progress or
\* completed, and all of them when s is "all" or omitted; the same holds,
\* independently, for the priority.
C7_Filters ==
    mock_currentUser # null =>
        \A params \in FilterParams : \A r \in getAllResults(params) :
            /\ r.settled = "resolved" /\ r.success
            /\ Range(r.data.data) =
                  {t \in Range(mock_tasks) :
                      Own(t) /\ Selected(params, "status", t) /\ Selected(params, "priority", t)}
            /\ r.data.total = Len(r.data.data)
            /\ \A i, j \in 1..Len(r.data.data) : i # j => r.data.data[i] # r.data.data[j]

\* A list that kept some of the current user's tasks and dropped others.
C7_Witness ==
    /\ resp.op = "getAll"
    /\ IsOk(resp)
    /\ resp.result.data.data # <<>>
    /\ Len(resp.result.data.data) < Len(ownTasks(mock_tasks, mock_currentUser))

\* C8: with a session, stats resolves and its pending, in-progress and
\* completed counts sum to its total.
C8_StatsSum ==
    mock_currentUser # null =>
        LET r == getStatsResult
        IN  /\ r.settled = "resolved" /\ r.success
            /\ r.data.pending + r.data["in-progress"] + r.data.completed = r.data.total

-----------------------------------------------------------------------------
(* Properties of create, over SpecCreate.                                   *)

TaskFields == {"title", "description", "status", "priority", "dueDate"}
ServerFields == {"_id", "userId", "createdAt", "updatedAt"}

\* what get(id) answers after the step
getOneAfter(id) == getOneResult(id)'

\* get answers the created task, owned by the session's user, with an
\* identifier and both timestamps
RoundTrips(created) ==
    \E id \in 1..MaxIds :
        /\ id = created._id
        /\ getOneAfter(id) = Resolved(TRUE, "", created)
        /\ \A k \in ServerFields : Has(created, k)
        /\ created.userId = mock_currentUser._id

\* after a first create of a title alone, list({status: "all"}) answers exactly
\* that task, pending and medium
ListsAlone(d, created) ==
    (d = [title |-> titleA] /\ ownTasks(mock_tasks, mock_currentUser) = <<>>)
        => /\ getAllResults([status |-> "all"])' =
                 {Resolved(TRUE, "", [data |-> <<created>>, total |-> 1])}
           /\ created.title = titleA
           /\ created.status = "pending"
           /\ created.priority = "medium"

\* C9 as stated: create(data) then get(id) returns a task whose title,
\* description, status, priority and due date equal the supplied data, status
\* pending and priority medium when omitted, with identifier, owner and
\* timestamps present; and a first create({title}) is the only task listed.
C9_RoundTripAsStated ==
    [][\A d \in TaskDataCreate :
          (resp'.op = "create" /\ mock_currentUser # null /\ create(d))
              => /\ IsOk(resp')
                 /\ RoundTrips(resp'.result.data)
                 /\ \A k \in TaskFields :
                        Has(d, k) => resp'.result.data[k] = d[k]
                 /\ ~Has(d, "status") => resp'.result.data.status = "pending"
                 /\ ~Has(d, "priority") => resp'.result.data.priority = "medium"
                 /\ ListsAlone(d, resp'.result.data)]_vars

\* C9: create(data) then get(id) returns a task whose title equals the supplied
\* title and whose description, status, priority and due date equal the supplied
\* values that are not empty; an omitted or empty description is stored empty,
\* status as pending, priority as medium and due date as null; identifier,
\* owner and timestamps are present; a first create({title}) is the only task listed.
C9_RoundTrip ==
    [][\A d \in TaskDataCreate :
          (resp'.op = "create" /\ mock_currentUser # null /\ create(d))
              => LET created == resp'.result.data
                 IN  /\ IsOk(resp')
                     /\ RoundTrips(created)
                     /\ Has(d, "title") => created.title = d.title
                     /\ created.description =
                            (IF TruthyText(d, "description") THEN d.description ELSE <<>>)
                     /\ created.status = (IF TruthyStr(d, "status") THEN d.status ELSE "pending")
                     /\ created.priority = (IF TruthyStr(d, "priority") THEN d.priority ELSE "medium")
                     /\ created.dueDate = (IF TruthyStr(d, "dueDate") THEN d.dueDate ELSE nullDate)
                     /\ ListsAlone(d, created)]_vars

\* A task created without a due date next to one created with every field.
C9_Witness ==
    /\ resp.op = "create"
    /\ IsOk(resp)
    /\ resp.result.data.dueDate = nullDate
    /\ getOneResult(resp.result.data._id) = Resolved(TRUE, "", resp.result.data)
    /\ \E t \in Range(mock_tasks) : t.dueDate = "2026-11-02" /\ t.status = "completed"

\* the bounds the Repository states for create
ValidTaskData(d) ==
    /\ Has(d, "title")
    /\ d.title # <<>>
    /\ Len(d.title) <= TitleMax
    /\ Has(d, "description") => Len(d.description) <= DescriptionMax

\* C10: with a session, create with a missing or empty title, a title longer
\* than 100 characters or a description longer than 500 characters fails and
\* stores no task; only data within these bounds produces a stored task.
C10_CreateValidates ==
    [][\A d \in TaskDataCreate :
          (create(d) /\ mock_currentUser # null)
              => IF ValidTaskData(d)
                 THEN IsOk(resp') /\ Len(mock_tasks') = Len(mock_tasks) + 1
                 ELSE IsFail(resp') /\ mock_tasks' = mock_tasks]_vars

-----------------------------------------------------------------------------
(* Further properties of the Task Repository, over SpecTasks.               *)

\* C11: update(id, patch) on a task of the current user never changes the
\* task's userId: for every patch, one that carries a userId included, every
\* stored task has after the update the userId it had before.
C11_UpdateKeepsOwner ==
    \A id \in KnownIds : \A patch \in TaskPatches(mock_users) :
        LET after == tasksAfterUpdate(id, patch)
        IN  /\ Len(after) = Len(mock_tasks)
            /\ \A j \in 1..Len(mock_tasks) : after[j].userId = mock_tasks[j].userId

\* a settled result that is the failure 'Task not found'
NotFound(result) ==
    /\ result.settled = "resolved"
    /\ ~result.success
    /\ result.message = "Task not found"
\* the current user owns no task with this identifier
NoneOwned(id) == ~\E t \in Range(mock_tasks) : t._id = id /\ Own(t)

\* C12: with a session, getOne, update and delete called with an id that matches
\* no task owned by the current user (an unknown id, or the id of another user's
\* task) fail with 'Task not found' and leave the tasks collection unchanged.
C12_NotFound ==
    mock_currentUser # null =>
        \A id \in KnownIds : NoneOwned(id) =>
            /\ NotFound(getOneResult(id))
            /\ NotFound(deleteResult(id))
            /\ tasksAfterDelete(id) = mock_tasks
            /\ \A patch \in TaskPatches(mock_users) :
                /\ NotFound(updateResult(id, patch))
                /\ tasksAfterUpdate(id, patch) = mock_tasks
\* update or delete just failed with 'Task not found' in a session while the
\* Store holds a task of another user
C12_Witness ==
    /\ mock_currentUser # null
    /\ resp.op \in {"update", "delete"}
    /\ NotFound(resp.result)
    /\ \E t \in Range(mock_tasks) : ~Own(t)

\* a settled result that is the failure 'Not authenticated', returned as a value
NotAuthenticated(result) ==
    /\ result.settled = "resolved"
    /\ ~result.success
    /\ result.message = "Not authenticated"

\* the operations that need a session and leave it as it is
SessionOps == {"getMe", "updateProfile", "changePassword",
               "getAll", "getOne", "create", "update", "delete", "getStats"}

\* C19: called with no session, every operation that requires one (me,
\* updateProfile, changePassword, list, get, create, update, delete, stats)
\* returns the failure 'Not authenticated' as a value and leaves the Store
\* unchanged; none of them ends with an exception.
C19_NoSessionFails ==
    mock_currentUser = null =>
        /\ resp.op \in SessionOps => NotAuthenticated(resp.result)
        /\ \A params \in ListQueries : \A r \in getAllResults(params) : NotAuthenticated(r)
        /\ NotAuthenticated(getStatsResult)
        /\ \A id \in KnownIds :
            /\ NotAuthenticated(getOneResult(id))
            /\ NotAuthenticated(deleteResult(id))
            /\ tasksAfterDelete(id) = mock_tasks
            /\ \A patch \in TaskPatches(mock_users) :
                /\ NotAuthenticated(updateResult(id, patch))
                /\ tasksAfterUpdate(id, patch) = mock_tasks

-----------------------------------------------------------------------------
(* Further properties of the Auth Service, over Spec.                       *)

\* the User representation a successful signup, login, getMe or updateProfile
\* returned
ReturnedUser(r) ==
    IF r.op \in {"signup", "login"} THEN r.result.data.user ELSE r.result.data

\* C13: no User representation returned by signup, login, getMe or
\* updateProfile, and no session snapshot, ever contains the password field,
\* whatever the input, an updateProfile patch that carries a password included.
C13_NoPasswordExposed ==
    /\ ~Has(mock_currentUser, "password")
    /\ (resp.op \in {"signup", "login", "getMe", "updateProfile"} /\ IsOk(resp))
          => ~Has(ReturnedUser(resp), "password")

\* C14: in every state reachable through the Auth operations no two User
\* records have the same email.
C14_UniqueEmails ==
    \A i, j \in 1..Len(mock_users) :
        mock_users[i].email = mock_users[j].email => i = j

\* C16: the session token is present exactly when the current-user snapshot
\* is present: a successful signup or login sets both, logout and deleteAccount
\* clear both, and no operation sets or clears only one of them.
C16_TokenIffSnapshot ==
    /\ (mock_token = noToken) <=> (mock_currentUser = null)
    /\ (resp.op \in {"signup", "login"} /\ IsOk(resp))
          => (mock_token # noToken /\ mock_currentUser # null)
    /\ (resp.op = "logout" \/ (resp.op = "deleteAccount" /\ IsOk(resp)))
          => (mock_token = noToken /\ mock_currentUser = null)
\* deleteAccount just ended a session: token and snapshot are both gone
C16_Witness ==
    /\ resp.op = "deleteAccount"
    /\ IsOk(resp)
    /\ mock_token = noToken
    /\ mock_currentUser = null

-----------------------------------------------------------------------------
(* Referential integrity of the Store, over SpecOwners.                     *)

\* C15: every task's userId references an existing User record: create
\* attaches a task only to an existing user, update never redirects a task to
\* a user that does not exist, deleteAccount leaves no task of the deleted
\* user.
C15_OwnersExist ==
    \A t \in Range(mock_tasks) : \E u \in Range(mock_users) : u._id = t.userId

-----------------------------------------------------------------------------
(* Properties of the dispatcher of services/api.js, over SpecDispatch.      *)

\* C17: the reachability probe (GET /api/health) is performed at most once per
\* process, for any number and interleaving of dispatched operations, those
\* dispatched while an earlier operation's probe has not yet completed
\* included.
C17_ProbeOnce == probes <= 1

\* once set, the flag keeps its value
FlagStays == isBackendAvailable # "null" => isBackendAvailable' = isBackendAvailable
\* a call routed while the flag is set goes to the side the flag names
RoutedByFlag ==
    \A c \in 1..Len(calls) :
        (isBackendAvailable # "null" /\ calls[c].pc = "checked" /\ calls'[c].pc = "pending")
            => calls[c].available = isBackendAvailable

\* C18: once the availability flag is set to true or false it never changes
\* again, and every operation routed from then on goes to the side the flag
\* names, for any interleaving of operations and probe completions.
C18_FlagSetOnce == [][FlagStays /\ RoutedByFlag]_vars

\* mockTaskAPI.getAll answered call c with success
LocalSuccess(c) ==
    /\ calls[c].available = "false"
    /\ calls[c].response.settled = "resolved"
    /\ calls[c].response.value.success

\* C20: when taskAPI.getAll is routed locally and succeeds, fetchTasks reads
\* success = true and takes the setTasks branch, not the 'Failed to fetch
\* tasks' branch, as it does for a successful remote response.
C20_LocalListShown ==
    \A c \in 1..Len(calls) :
        (calls[c].pc = "done" /\ LocalSuccess(c)) => calls[c].branch = "setTasks"

-----------------------------------------------------------------------------
(* The Session and the stored User, over Spec.                              *)

\* C23: whenever a Session exists, its current-user snapshot has the
\* identifier of a stored User and equals that stored User minus the
\* credential: updateProfile applies the same change of name and email to
\* both and touches nothing else.
C23_SnapshotMatchesUser ==
    mock_currentUser # null =>
        \E i \in 1..Len(mock_users) :
            /\ mock_users[i]._id = mock_currentUser._id
            /\ Rest(mock_users[i], "password") = mock_currentUser

-----------------------------------------------------------------------------
(* The order of a list, over SpecSort.                                      *)

\* the position of a task in the Store
StoreIndex(t) == CHOOSE i \in 1..Len(mock_tasks) : mock_tasks[i]._id = t._id
\* the list is a permutation of the user's tasks
IsPermutation(list) ==
    LET own == ownTasks(mock_tasks, mock_currentUser)
    IN  Len(list) = Len(own) /\ Range(list) = Range(own)
\* high before medium before low, equal priorities in Store order
InPriorityOrder(list) ==
    \A i, j \in 1..Len(list) :
        (i < j /\ list[i].priority \in Priorities /\ list[j].priority \in Priorities) =>
            /\ priorityOrder(list[i].priority) <= priorityOrder(list[j].priority)
            /\ list[i].priority = list[j].priority => StoreIndex(list[i]) < StoreIndex(list[j])
InOrderFor(list, params) ==
    IF ~Has(params, "sort") \/ params.sort \notin Sorts
    THEN list = ownTasks(mock_tasks, mock_currentUser)
    ELSE IF params.sort = "priority" THEN InPriorityOrder(list)
    ELSE IF params.sort = "newest"
    THEN \A i, j \in 1..Len(list) : i < j => list[i].createdAt >= list[j].createdAt
    ELSE IF params.sort = "oldest"
    THEN \A i, j \in 1..Len(list) : i < j => list[i].createdAt <= list[j].createdAt
    ELSE TRUE

\* C24: the sequence list returns is a permutation of the user's tasks in
\* the requested order: for sort = priority every high task before every
\* medium one and every medium before every low, equal priorities in Store
\* order; for newest and oldest by creation time descending and ascending;
\* for an unrecognized or absent sort value in Store order.
C24_ListOrdered ==
    \A params \in SortParams : \A r \in getAllResults(params) :
        /\ r.settled = "resolved" /\ r.success
        /\ IsPermutation(r.data.data)
        /\ InOrderFor(r.data.data, params)

-----------------------------------------------------------------------------
(* The enumerations of a task, over SpecTasks.                              *)

\* C25: every stored task has its status in {pending, in-progress, completed}
\* and its priority in {low, medium, high}: a create or update that carries
\* another value stores nothing.
C25_EnumsKept ==
    \A t \in Range(mock_tasks) : t.status \in Statuses /\ t.priority \in Priorities

-----------------------------------------------------------------------------
(* Properties of AuthContext over the local route, over SpecContext.        *)

\* C21: whenever an operation fails as Unauthorized on the local path (the
\* envelope says 'Not authenticated'), the caller's stored session is cleared:
\* neither the token item nor the user item remains in localStorage.
C21_UnauthorizedClears ==
    (resp.op \in SessionOps \cup {"deleteAccount"} /\ NotAuthenticated(resp.result))
        => (ls_token = noToken /\ ls_user = null)

\* the AuthContext operations that call the API
ContextOps == {"signup", "login", "updateProfile", "deleteAccount"}

\* C22: when a locally routed signup, login, updateProfile or deleteAccount
\* fails, AuthContext returns success = false with the message of the failure
\* envelope, and never success = true for an envelope with success = false.
C22_FailureSurfaces ==
    (resp.op \in ContextOps /\ IsFail(resp))
        => (~returned.success /\ returned.message = resp.result.message)

\* the UI is authenticated: AuthContext has a user, localStorage a token and
\* a user
Authenticated == Truthy(auth_user) /\ ls_token # noToken /\ ls_user # null

\* C27: after any sequence of AuthContext login, signup, logout,
\* updateProfile and deleteAccount calls over the local route, the UI is
\* authenticated exactly when the local Store has a Session, and then both
\* denote the same user; after AuthContext.logout no local Session remains
\* and getMe fails.
C27_UiMatchesSession ==
    /\ Authenticated <=> mock_currentUser # null
    /\ (Authenticated /\ mock_currentUser # null) => auth_user._id = mock_currentUser._id

\* every fetch has completed
AllFetched == calls # <<>> /\ \A c \in 1..Len(calls) : calls[c].pc = "done"

\* C29: if the filters change while an earlier fetchTasks call is in flight,
\* then once all outstanding fetches have completed the displayed list is
\* the result for the latest filter values: the response of an earlier
\* request never overwrites the response of a later one.
C29_LatestFetchShown ==
    LET last == calls[Len(calls)]
    IN  (AllFetched /\ last.arg = filters /\ last.branch = "setTasks")
            => ui_tasks = fetchTasksReads(last.response).tasks

\* the calls of taskAPI.create the mock has answered with success
Created ==
    {c \in 1..Len(calls) :
        /\ calls[c].op = "create"
        /\ calls[c].pc \in {"pending", "done"}
        /\ calls[c].response.settled = "resolved"
        /\ calls[c].response.value.success}
\* the task the mock answered call c with
createdBy(c) == calls[c].response.value.data

\* C26: when several locally routed operations are in flight at once, each
\* one's read-modify-write of the Store is one uninterrupted step and no
\* update is lost: the Store holds exactly the tasks of the creates that
\* succeeded, one after another in the order, whichever it was, in which
\* they ran.
C26_NoCreateLost ==
    \E order \in [1..Len(mock_tasks) -> Created] :
        /\ \A i, j \in 1..Len(mock_tasks) : order[i] = order[j] => i = j
        /\ \A c \in Created : \E i \in 1..Len(mock_tasks) : order[i] = c
        /\ \A i \in 1..Len(mock_tasks) : mock_tasks[i] = createdBy(order[i])

\* two creates were in flight at once (the one called second ran first), both
\* have returned, and both tasks are stored
C26_Witness ==
    /\ Len(calls) = 2
    /\ \A c \in 1..2 : calls[c].pc = "done" /\ c \in Created
    /\ Len(mock_tasks) = 2
    /\ mock_tasks[1] = createdBy(2)
    /\ mock_tasks[2] = createdBy(1)

\* the success toasts of the handlers, and the mock operation each follows
SuccessToast ==
    [changePassword |-> "Password changed successfully",
     update |-> "Task updated successfully",
     create |-> "Task created successfully",
     delete |-> "Task deleted successfully"]

\* C28: the UI shows a success notification for an operation only if that
\* operation succeeded: while the toast of a handler is the success message
\* of the operation the mock answered last, that answer has success=true
\* (for changePassword: the stored credential was changed).
C28_ToastOnlyOnSuccess ==
    \A op \in DOMAIN SuccessToast :
        (resp.op = op /\ toast = SuccessToast[op]) => IsOk(resp)

\* the calls of authAPI that were routed to the backend
RoutedRemotely ==
    {c \in 1..Len(calls) :
        /\ calls[c].op \in DOMAIN authRoutes
        /\ calls[c].pc \in {"pending", "done"}
        /\ calls[c].available = "true"}

\* C30: every Auth operation the dispatcher routes remotely (signup, login,
\* me, updateProfile, changePassword, deleteAccount, logout) targets an HTTP
\* method and path that the backend auth router registers.
C30_RoutesRegistered ==
    \A c \in RoutedRemotely : requestOf(calls[c].op) \in registered

====
